---- MODULE Spec2Model ----
(***************************************************************************)
(* Error model of the KDL parser (src/error.rs): the internal accumulator  *)
(* KdlParseError<I>, the nom error-trait glue that creates it at a failure *)
(* site and carries it up the combinator stack (from_error_kind, append,   *)
(* add_context, from_external_error), and the conversion of the            *)
(* accumulator into the public KdlError at the top level.                  *)
(***************************************************************************)
EXTENDS Integers, Sequences, FiniteSets, TLC

\* ---- bounds ----
MaxLen == 2
MaxUnwind == 3

\* ---- input domains ----
Chars == {"a", "9"}
Labels == {"node", "property", "value"}
ErrorKinds == {"Tag", "MapRes"}
IntErrs == {"Empty", "InvalidDigit", "PosOverflow", "NegOverflow"}
FloatErrs == {"Empty", "Invalid"}

Inputs == UNION {[1..n -> Chars] : n \in 0..MaxLen}

\* the slice &input[k..]
Suffix(s, k) == SubSeq(s, k + 1, Len(s))

\* ---- Option<..> and KdlErrorKind values ----
None == "None"
NoKind == [tag |-> "None", arg |-> ""]
ParseIntError(e) == [tag |-> "ParseIntError", arg |-> e]
ParseFloatError(e) == [tag |-> "ParseFloatError", arg |-> e]
Context(c) == [tag |-> "Context", arg |-> c]
Other == [tag |-> "Other", arg |-> ""]

KdlParseError(input, context, kind) ==
    [input |-> input, context |-> context, kind |-> kind]

\* ---- ParseError / ContextError / FromExternalError glue ----
from_error_kind_other(input, kind) ==
    KdlParseError(input, None, Other)

from_error_kind(input, kind) ==
    KdlParseError(input, None, NoKind)

append_fresh(input, kind, other) ==
    from_error_kind(input, kind)

append_reanchor(input, kind, other) ==
    [other EXCEPT !.input = input]

append(input, kind, other) ==
    other

add_context_demote(input, ctx, other) ==
    [other EXCEPT !.context = IF other.context # None THEN other.context ELSE ctx,
                  !.kind = Context(ctx)]

add_context_last(input, ctx, other) ==
    [other EXCEPT !.context = ctx]

add_context_noop(input, ctx, other) ==
    other

add_context_reanchor(input, ctx, other) ==
    [other EXCEPT !.input = input,
                  !.context = IF other.context # None THEN other.context ELSE ctx]

add_context(input, ctx, other) ==
    [other EXCEPT !.context = IF other.context # None THEN other.context ELSE ctx]

from_external_error_int_dropped(input, kind, e) ==
    KdlParseError(input, None, NoKind)

from_external_error_int(input, kind, e) ==
    KdlParseError(input, None, ParseIntError(e))

from_external_error_float_as_int(input, kind, e) ==
    KdlParseError(input, None, ParseIntError(e))

from_external_error_float(input, kind, e) ==
    KdlParseError(input, None, ParseFloatError(e))

\* ---- Error Aggregator: accumulator -> public KdlError ----
Cause(e) ==
    IF e.kind # NoKind THEN e.kind
    ELSE IF e.context # None THEN Context(e.context)
    ELSE Other

KdlError(input, offset, kind) ==
    [input |-> input, offset |-> offset, kind |-> kind]

finalize_remaining(input, e) ==
    KdlError(input, Len(e.input), Cause(e))

finalize(input, e) ==
    KdlError(input, Len(input) - Len(e.input), Cause(e))

\* ---- state ----
VARIABLES
    orig,     \* the text handed to the parser
    pc,       \* "parsing" | "unwinding" | "done"
    acc,      \* the accumulator travelling up the combinator stack
    diag,     \* the public KdlError once the top level is reached
    site,     \* history: offset of the failure point that created acc
    origin,   \* history: "grammar" | "int" | "float"
    native,   \* history: the native conversion error that was lifted
    labels,   \* history: labels passed to add_context, in unwind order
    frame,    \* start offset of the production currently being unwound
    steps,    \* number of unwind steps taken
    last      \* history: the last glue call, its arguments and its operand

vars == <<orig, pc, acc, diag, site, origin, native, labels, frame, steps, last>>

NoAcc == KdlParseError(<<>>, None, NoKind)
NoDiag == KdlError(<<>>, 0, NoKind)
Call(op, input, kind, ctx, e, prev) ==
    [op |-> op, input |-> input, kind |-> kind, ctx |-> ctx, e |-> e, prev |-> prev]
NoCall == Call("none", <<>>, "", "", "", NoAcc)

Init ==
    /\ orig \in Inputs
    /\ pc = "parsing"
    /\ acc = NoAcc
    /\ diag = NoDiag
    /\ site = 0
    /\ origin = "none"
    /\ native = ""
    /\ labels = <<>>
    /\ frame = 0
    /\ steps = 0
    /\ last = NoCall

\* a grammar mismatch at offset k
FromErrorKind(k, ek) ==
    /\ pc = "parsing"
    /\ acc' = from_error_kind(Suffix(orig, k), ek)
    /\ pc' = "unwinding"
    /\ site' = k
    /\ frame' = k
    /\ origin' = "grammar"
    /\ last' = Call("from_error_kind", Suffix(orig, k), ek, "", "", NoAcc)
    /\ UNCHANGED <<orig, diag, native, labels, steps>>

\* str::parse::<i64> failed on the literal that begins at offset k
FromExternalInt(k, ek, e) ==
    /\ pc = "parsing"
    /\ acc' = from_external_error_int(Suffix(orig, k), ek, e)
    /\ pc' = "unwinding"
    /\ site' = k
    /\ frame' = k
    /\ origin' = "int"
    /\ native' = e
    /\ last' = Call("from_external_error_int", Suffix(orig, k), ek, "", e, NoAcc)
    /\ UNCHANGED <<orig, diag, labels, steps>>

\* str::parse::<f64> failed on the literal that begins at offset k
FromExternalFloat(k, ek, e) ==
    /\ pc = "parsing"
    /\ acc' = from_external_error_float(Suffix(orig, k), ek, e)
    /\ pc' = "unwinding"
    /\ site' = k
    /\ frame' = k
    /\ origin' = "float"
    /\ native' = e
    /\ last' = Call("from_external_error_float", Suffix(orig, k), ek, "", e, NoAcc)
    /\ UNCHANGED <<orig, diag, labels, steps>>

\* an enclosing context(ctx, ..) production that began at offset p fails
AddContext(p, ctx) ==
    /\ pc = "unwinding"
    /\ steps < MaxUnwind
    /\ p <= frame
    /\ acc' = add_context(Suffix(orig, p), ctx, acc)
    /\ labels' = Append(labels, ctx)
    /\ frame' = p
    /\ steps' = steps + 1
    /\ last' = Call("add_context", Suffix(orig, p), "", ctx, "", acc)
    /\ UNCHANGED <<orig, pc, diag, site, origin, native>>

\* an enclosing combinator that began at offset p appends its own ErrorKind
AppendStep(p, ek) ==
    /\ pc = "unwinding"
    /\ steps < MaxUnwind
    /\ p <= frame
    /\ acc' = append(Suffix(orig, p), ek, acc)
    /\ frame' = p
    /\ steps' = steps + 1
    /\ last' = Call("append", Suffix(orig, p), ek, "", "", acc)
    /\ UNCHANGED <<orig, pc, diag, site, origin, native, labels>>

\* the failure reaches the top level
Finalize ==
    /\ pc = "unwinding"
    /\ diag' = finalize(orig, acc)
    /\ pc' = "done"
    /\ UNCHANGED <<orig, acc, site, origin, native, labels, frame, steps, last>>

Next ==
    \/ \E k \in 0..Len(orig), ek \in ErrorKinds : FromErrorKind(k, ek)
    \/ \E k \in 0..Len(orig), ek \in ErrorKinds, e \in IntErrs : FromExternalInt(k, ek, e)
    \/ \E k \in 0..Len(orig), ek \in ErrorKinds, e \in FloatErrs : FromExternalFloat(k, ek, e)
    \/ \E p \in 0..Len(orig), ctx \in Labels : AddContext(p, ctx)
    \/ \E p \in 0..Len(orig), ek \in ErrorKinds : AppendStep(p, ek)
    \/ Finalize

Spec == Init /\ [][Next]_vars

IsConversionFailure(k) == k.tag \in {"ParseIntError", "ParseFloatError"}
Positions == 0..Len(orig)

Failed == pc \in {"unwinding", "done"}

\* C1: sticky specificity. add_context applied to an accumulator whose kind
\* is a conversion failure (ParseIntError / ParseFloatError) returns an
\* accumulator with the same kind, for every label; and an accumulator that
\* was created from a conversion failure still carries that very failure
\* after any sequence of unwind steps.
C1_StickySpecificity ==
    /\ (last.op = "add_context" /\ IsConversionFailure(last.prev.kind))
          => acc.kind = last.prev.kind
    /\ (Failed /\ IsConversionFailure(acc.kind))
          => \A p \in Positions, c \in Labels :
                add_context(Suffix(orig, p), c, acc).kind = acc.kind
    /\ (Failed /\ origin = "int") => acc.kind = ParseIntError(native)
    /\ (Failed /\ origin = "float") => acc.kind = ParseFloatError(native)

C1_Witness ==
    /\ last.op = "add_context"
    /\ IsConversionFailure(last.prev.kind)
    /\ Len(labels) >= 2
    /\ acc.kind = last.prev.kind

\* C2: first label wins. add_context applied to an accumulator that carries
\* a label L1 and no conversion failure returns an accumulator that still
\* carries L1; applying add_context twice gives the same accumulator as
\* applying only the first.
C2_FirstLabelWins ==
    /\ (last.op = "add_context" /\ last.prev.context # None /\ last.prev.kind = NoKind)
          => acc.context = last.prev.context
    /\ Failed =>
          \A p1 \in Positions, p2 \in Positions, l1 \in Labels, l2 \in Labels :
             add_context(Suffix(orig, p2), l2, add_context(Suffix(orig, p1), l1, acc))
                = add_context(Suffix(orig, p1), l1, acc)

C2_Witness ==
    /\ last.op = "add_context"
    /\ last.prev.context # None
    /\ last.prev.kind = NoKind
    /\ last.ctx # last.prev.context
    /\ acc.context = last.prev.context

\* C3: add_context with label L applied to an accumulator with no label and
\* no kind (as from_error_kind produces) yields an accumulator whose label is
\* L and whose kind is still absent, i.e. whose cause is Context(L).
C3_ContextFillsAbsentCause ==
    (last.op = "add_context" /\ last.prev.context = None /\ last.prev.kind = NoKind)
       => /\ acc.context = last.ctx
          /\ acc.kind = NoKind
          /\ Cause(acc) = Context(last.ctx)

C3_Witness ==
    /\ last.op = "add_context"
    /\ last.prev = from_error_kind(Suffix(orig, site), "Tag")
    /\ acc.context = last.ctx

\* C4: for a failure created by from_error_kind, the label the accumulator
\* holds after unwinding through one or more labelled productions is the
\* first one applied (the innermost), whatever append calls are interleaved.
C4_InnermostLabel ==
    (Failed /\ origin = "grammar" /\ labels # <<>>) => acc.context = labels[1]

C4_Witness ==
    /\ pc = "done"
    /\ origin = "grammar"
    /\ Len(labels) >= 2
    /\ labels[Len(labels)] # labels[1]
    /\ steps > Len(labels)
    /\ acc.context = labels[1]

\* C5: a failure lifted from a ParseIntError at offset k is reported with
\* offset k and kind ParseIntError(e), for every sequence of add_context and
\* append steps.
C5_IntFailureReported ==
    (pc = "done" /\ origin = "int")
       => /\ diag.offset = site
          /\ diag.kind = ParseIntError(native)

C5_Witness ==
    /\ pc = "done"
    /\ origin = "int"
    /\ site > 0
    /\ labels # <<>>
    /\ steps > Len(labels)
    /\ diag.kind = ParseIntError(native)

\* C6: from_external_error(input, _, e) returns an accumulator whose input is
\* the given slice, whose label is absent and whose kind is ParseIntError(e)
\* for an integer failure and ParseFloatError(e) for a float failure; the
\* ErrorKind argument has no influence.
C6_LiftKeepsFamilyAndPosition ==
    /\ last.op = "from_external_error_int"
          => /\ acc = KdlParseError(last.input, None, ParseIntError(last.e))
             /\ acc.input = Suffix(orig, site)
             /\ \A ek \in ErrorKinds :
                   from_external_error_int(last.input, ek, last.e) = acc
    /\ last.op = "from_external_error_float"
          => /\ acc = KdlParseError(last.input, None, ParseFloatError(last.e))
             /\ acc.input = Suffix(orig, site)
             /\ \A ek \in ErrorKinds :
                   from_external_error_float(last.input, ek, last.e) = acc

C6_Witness ==
    /\ last.op = "from_external_error_float"
    /\ site > 0
    /\ acc.kind = ParseFloatError(last.e)
    /\ acc.context = None

\* C7: a failure created by from_error_kind is reported as Context(innermost
\* label) when at least one label was applied, as Other exactly when none
\* was, and never as ParseIntError or ParseFloatError.
C7_GrammarFailureReported ==
    (pc = "done" /\ origin = "grammar")
       => /\ labels # <<>> => diag.kind = Context(labels[1])
          /\ labels = <<>> <=> diag.kind = Other
          /\ ~IsConversionFailure(diag.kind)

C7_Witness ==
    /\ pc = "done"
    /\ origin = "grammar"
    /\ labels = <<>>
    /\ steps > 0
    /\ diag.kind = Other

\* C8: the reported offset is the length of the original input minus the
\* length of the accumulator's remaining slice, lies in 0..length, and the
\* remaining slice is the suffix of the original input at that offset.
C8_OffsetValid ==
    pc = "done"
       => /\ diag.offset = Len(orig) - Len(acc.input)
          /\ 0 <= diag.offset
          /\ diag.offset <= Len(orig)
          /\ acc.input = Suffix(orig, diag.offset)
          /\ diag.input = orig

C8_Witness ==
    /\ pc = "done"
    /\ diag.offset > 0
    /\ diag.offset < Len(orig)
    /\ steps > 0

\* C9: append(input, kind, other) returns other unchanged: same remaining
\* input, same label, same kind, for every input, ErrorKind and accumulator.
C9_AppendKeepsOther ==
    /\ last.op = "append" => acc = last.prev
    /\ Failed => \A p \in Positions, ek \in ErrorKinds :
                    append(Suffix(orig, p), ek, acc) = acc

C9_Witness ==
    /\ last.op = "append"
    /\ last.input # acc.input
    /\ acc.kind # NoKind
    /\ acc.context # None
    /\ acc = last.prev

\* C10: the input field of the accumulator stays the slice it was created
\* with through every add_context and append step, whatever input argument
\* those steps are given.
C10_FailureSiteFixed ==
    Failed => acc.input = Suffix(orig, site)

C10_Witness ==
    /\ steps >= 2
    /\ labels # <<>>
    /\ steps > Len(labels)
    /\ frame < site
    /\ last.input # acc.input
    /\ acc.input = Suffix(orig, site)

====
